---- MODULE Spec2Model ----
(***************************************************************************)
(* A model of src/app.py: a Streamlit page that shows cached FX quotes     *)
(* (get_data), and on a button click fetches news headlines (get_news),    *)
(* scores them against a keyword table (calculate_sentiment_score) and     *)
(* labels each score (get_sentiment_color_text).                           *)
(*                                                                         *)
(* Text is modelled as a sequence of one-character strings, so that        *)
(* lower-casing, substring search and joining are computed, not assumed.   *)
(* Only ASCII letters are case-folded (str.lower on the ASCII range).      *)
(***************************************************************************)
EXTENDS Integers, Sequences, FiniteSets, TLC

\* ------------------------------------------------------------------ text

NL == "\n"

\* str.lower(), ASCII range: the upper-case letters and their images.
LowerMap ==
  [A |-> "a", B |-> "b", C |-> "c", D |-> "d", E |-> "e", F |-> "f", G |-> "g",
   H |-> "h", I |-> "i", J |-> "j", K |-> "k", L |-> "l", M |-> "m", N |-> "n",
   O |-> "o", P |-> "p", Q |-> "q", R |-> "r", S |-> "s", T |-> "t", U |-> "u",
   V |-> "v", W |-> "w", X |-> "x", Y |-> "y", Z |-> "z"]

\* s.lower()
lower(s) ==
  [i \in 1..Len(s) |-> IF s[i] \in DOMAIN LowerMap THEN LowerMap[s[i]] ELSE s[i]]

\* Python's `sub in s` on strings: sub occurs in s as a contiguous substring.
IsIn(sub, s) ==
  \E i \in 0..(Len(s) - Len(sub)) : \A j \in 1..Len(sub) : s[i + j] = sub[j]

\* sep.join(items)
RECURSIVE join(_, _)
join(sep, items) ==
  IF Len(items) = 0 THEN <<>>
  ELSE IF Len(items) = 1 THEN items[1]
  ELSE items[1] \o sep \o join(sep, Tail(items))

\* --------------------------------------------------------------- lexicon

\* The keys of the weights dict (lines 44-54), as written in the source.
K_Fed_hawkish == <<"F", "e", "d", " ", "h", "a", "w", "k", "i", "s", "h">>
K_CPI_surprise == <<"C", "P", "I", " ", "s", "u", "r", "p", "r", "i", "s", "e">>
K_Non_farm_strong == <<"N", "o", "n", "-", "f", "a", "r", "m", " ", "s", "t", "r", "o", "n", "g">>
K_US_rates_rise == <<"U", "S", " ", "r", "a", "t", "e", "s", " ", "r", "i", "s", "e">>
K_Fed_dovish == <<"F", "e", "d", " ", "d", "o", "v", "i", "s", "h">>
K_Recession_fears == <<"R", "e", "c", "e", "s", "s", "i", "o", "n", " ", "f", "e", "a", "r", "s">>
K_Inflation_slows == <<"I", "n", "f", "l", "a", "t", "i", "o", "n", " ", "s", "l", "o", "w", "s">>
K_BOJ_exit == <<"B", "O", "J", " ", "e", "x", "i", "t">>
K_YCC_end == <<"Y", "C", "C", " ", "e", "n", "d">>
K_Intervention_warning == <<"I", "n", "t", "e", "r", "v", "e", "n", "t", "i", "o", "n", " ", "w", "a", "r", "n", "i", "n", "g">>
K_BOJ_dovish == <<"B", "O", "J", " ", "d", "o", "v", "i", "s", "h">>
K_Japan_rates_stable == <<"J", "a", "p", "a", "n", " ", "r", "a", "t", "e", "s", " ", "s", "t", "a", "b", "l", "e">>
K_Kuroda == <<"K", "u", "r", "o", "d", "a">>
K_China_GDP_strong == <<"C", "h", "i", "n", "a", " ", "G", "D", "P", " ", "s", "t", "r", "o", "n", "g">>
K_China_stimulus == <<"C", "h", "i", "n", "a", " ", "s", "t", "i", "m", "u", "l", "u", "s">>
K_PBOC_stable == <<"P", "B", "O", "C", " ", "s", "t", "a", "b", "l", "e">>
K_PBOC_cut == <<"P", "B", "O", "C", " ", "c", "u", "t">>
K_Manufacturing_weak == <<"M", "a", "n", "u", "f", "a", "c", "t", "u", "r", "i", "n", "g", " ", "w", "e", "a", "k">>
K_Trade_tensions == <<"T", "r", "a", "d", "e", " ", "t", "e", "n", "s", "i", "o", "n", "s">>

\* The weights dict, in insertion order (the order .items() iterates in).
weights ==
  << [keyword |-> K_Fed_hawkish, weight |-> 6],
     [keyword |-> K_CPI_surprise, weight |-> 5],
     [keyword |-> K_Non_farm_strong, weight |-> 4],
     [keyword |-> K_US_rates_rise, weight |-> 7],
     [keyword |-> K_Fed_dovish, weight |-> -6],
     [keyword |-> K_Recession_fears, weight |-> -4],
     [keyword |-> K_Inflation_slows, weight |-> -5],
     [keyword |-> K_BOJ_exit, weight |-> 7],
     [keyword |-> K_YCC_end, weight |-> 8],
     [keyword |-> K_Intervention_warning, weight |-> 6],
     [keyword |-> K_BOJ_dovish, weight |-> -6],
     [keyword |-> K_Japan_rates_stable, weight |-> -4],
     [keyword |-> K_Kuroda, weight |-> -3],
     [keyword |-> K_China_GDP_strong, weight |-> 5],
     [keyword |-> K_China_stimulus, weight |-> 4],
     [keyword |-> K_PBOC_stable, weight |-> 3],
     [keyword |-> K_PBOC_cut, weight |-> -5],
     [keyword |-> K_Manufacturing_weak, weight |-> -4],
     [keyword |-> K_Trade_tensions, weight |-> -3] >>

Currencies == {"USD", "JPY", "CNY"}

\* The substrings of the keyword itself that route it to a currency
\* (lines 65, 67, 69).
kw_fed == <<"f", "e", "d">>
kw_us == <<"u", "s">>
kw_cpi == <<"c", "p", "i">>
kw_non_farm == <<"n", "o", "n", "-", "f", "a", "r", "m">>
kw_boj == <<"b", "o", "j">>
kw_jpy == <<"j", "p", "y">>
kw_ycc == <<"y", "c", "c">>
kw_japan == <<"j", "a", "p", "a", "n">>
kw_china == <<"c", "h", "i", "n", "a">>
kw_pboc == <<"p", "b", "o", "c">>
kw_gdp == <<"g", "d", "p">>

\* ------------------------------------------------- calculate_sentiment_score

\* Lines 65-70: the three independent ifs that add weight to the currencies
\* the keyword's own text names.
AddWeight(scores, keyword, weight) ==
  LET k  == lower(keyword)
      s1 == IF IsIn(kw_fed, k) \/ IsIn(kw_us, k) \/ IsIn(kw_cpi, k) \/ IsIn(kw_non_farm, k)
            THEN [scores EXCEPT !.USD = @ + weight] ELSE scores
      s2 == IF IsIn(kw_boj, k) \/ IsIn(kw_jpy, k) \/ IsIn(kw_ycc, k) \/ IsIn(kw_japan, k)
            THEN [s1 EXCEPT !.JPY = @ + weight] ELSE s1
      s3 == IF IsIn(kw_china, k) \/ IsIn(kw_pboc, k) \/ IsIn(kw_gdp, k)
            THEN [s2 EXCEPT !.CNY = @ + weight] ELSE s2
  IN  s3

\* The number of (possibly overlapping) places where sub occurs in s.
Occurrences(sub, s) ==
  Cardinality({i \in 0..(Len(s) - Len(sub)) : \A j \in 1..Len(sub) : s[i + j] = sub[j]})

\* A variant of the loop body that adds the weight once per occurrence.
ScoreStepCounting(scores, keyword, weight, lower_news) ==
  AddWeight(scores, keyword, weight * Occurrences(lower(keyword), lower_news))

\* Lines 63-70: one iteration of the loop over weights.items().
ScoreStep(scores, keyword, weight, lower_news) ==
  IF IsIn(lower(keyword), lower_news)
  THEN AddWeight(scores, keyword, weight)
  ELSE scores

\* Lines 62-70: the loop, from entry i of the dict on.
RECURSIVE ScoreLoop(_, _, _)
ScoreLoop(i, scores, lower_news) ==
  IF i > Len(weights) THEN scores
  ELSE ScoreLoop(i + 1,
                 ScoreStep(scores, weights[i].keyword, weights[i].weight, lower_news),
                 lower_news)

\* Lines 40-72.
calculate_sentiment_score(news_text) ==
  ScoreLoop(1, [USD |-> 0, JPY |-> 0, CNY |-> 0], lower(news_text))

\* ------------------------------------------------ get_sentiment_color_text

\* The five label strings of lines 108-116, named by their meaning.
StronglyBullish == "StronglyBullish"
MildlyBullish   == "MildlyBullish"
StronglyBearish == "StronglyBearish"
MildlyBearish   == "MildlyBearish"
Neutral         == "Neutral"

\* A variant with the first threshold inclusive.
get_sentiment_color_text_ge(score) ==
  IF score >= 5 THEN StronglyBullish
  ELSE IF score > 1 THEN MildlyBullish
  ELSE IF score < -5 THEN StronglyBearish
  ELSE IF score < -1 THEN MildlyBearish
  ELSE Neutral

\* Lines 106-116: the if/elif chain, in source order.
get_sentiment_color_text(score) ==
  IF score > 5 THEN StronglyBullish
  ELSE IF score > 1 THEN MildlyBullish
  ELSE IF score < -5 THEN StronglyBearish
  ELSE IF score < -1 THEN MildlyBearish
  ELSE Neutral

\* ------------------------------------------------------------- get_news

\* Line 33: feed.entries[:10].
NewsCap == 10

\* The "- " that line 34 puts before each title.
Dash == <<"-", " ">>

\* A variant of the slice that stops one entry early.
FirstNShort(entries, n) ==
  SubSeq(entries, 1, IF Len(entries) < n - 1 THEN Len(entries) ELSE n - 1)

\* entries[:n]
FirstN(entries, n) ==
  SubSeq(entries, 1, IF Len(entries) < n THEN Len(entries) ELSE n)

\* Lines 31-34: news_items after the loop over the given titles.
news_items_of(titles) == [i \in 1..Len(titles) |-> Dash \o titles[i]]

\* A variant that joins the bare titles with one space.
news_text_of_spaces(entries) == join(<<" ">>, FirstN(entries, NewsCap))

\* Lines 31-35: the text get_news returns for the parsed entries' titles.
news_text_of(entries) == join(<<NL>>, news_items_of(FirstN(entries, NewsCap)))

\* ---------------------------------------------------------------- inputs

\* Headline titles the checks draw from: phrases in other letter case, a
\* phrase twice in one title, phrases cut in two at a title boundary, a
\* phrase inside a longer word, titles with no phrase, the empty title.
T_FedHawkishMove == <<"F", "E", "D", " ", "H", "A", "W", "K", "I", "S", "H", " ", "m", "o", "v", "e">>
T_FedHawkishTwice == <<"F", "e", "d", " ", "h", "a", "w", "k", "i", "s", "h", ",", " ", "f", "e", "d", " ", "h", "a", "w", "k", "i", "s", "h">>
T_Fed == <<"F", "e", "d">>
T_hawkish == <<"h", "a", "w", "k", "i", "s", "h">>
T_Non == <<"N", "o", "n">>
T_farm_strong == <<"f", "a", "r", "m", " ", "s", "t", "r", "o", "n", "g">>
T_BojExitTalk == <<"B", "o", "J", " ", "e", "x", "i", "t", " ", "t", "a", "l", "k">>
T_ChinaStimulusHopes == <<"C", "h", "i", "n", "a", " ", "s", "t", "i", "m", "u", "l", "u", "s", " ", "h", "o", "p", "e", "s">>
T_Calm == <<"M", "a", "r", "k", "e", "t", "s", " ", "c", "a", "l", "m">>
T_Empty == <<>>
T_Oil == <<"O", "i", "l">>
T_CpiFedDovish == <<"C", "P", "I", " ", "s", "u", "r", "p", "r", "i", "s", "e", ";", " ", "F", "e", "d", " ", "d", "o", "v", "i", "s", "h">>
T_Kurodanomics == <<"K", "u", "r", "o", "d", "a", "n", "o", "m", "i", "c", "s">>

TitlePool ==
  {T_FedHawkishMove, T_FedHawkishTwice, T_Fed, T_hawkish, T_Non, T_farm_strong,
   T_BojExitTalk, T_ChinaStimulusHopes, T_Calm, T_Empty, T_CpiFedDovish,
   T_Kurodanomics}


\* Every phrase of the weights dict, alone, as a one-title batch.
PhraseBatches == {<<weights[i].keyword>> : i \in 1..Len(weights)}

\* The longest batch of pool titles the scoring checks draw.
MaxBatch == 2

RECURSIVE SeqsUpTo(_, _)
SeqsUpTo(S, n) ==
  IF n = 0 THEN {<<>>}
  ELSE LET shorter == SeqsUpTo(S, n - 1)
       IN  shorter \cup {Append(b, t) : b \in {x \in shorter : Len(x) = n - 1}, t \in S}

Batches == SeqsUpTo(TitlePool, MaxBatch) \cup PhraseBatches

\* The scores the classifier is probed with: -MaxScore..MaxScore.
MaxScore == 30

ScoreRange == (0 - MaxScore)..MaxScore

\* ------------------------------------------------------ market data values

\* A float: a number n/d, or NaN.
Num(n) == [kind |-> "num", n |-> n, d |-> 1]
NaN    == [kind |-> "nan", n |-> 0, d |-> 1]

\* x / y on floats (y is never zero here); NaN is contagious.
FDiv(x, y) ==
  IF x.kind = "nan" \/ y.kind = "nan" THEN NaN
  ELSE [kind |-> "num", n |-> x.n * y.d, d |-> x.d * y.n]

\* x * k on floats.
FMul(x, k) == IF x.kind = "nan" THEN NaN ELSE [x EXCEPT !.n = @ * k]

\* What yf.download(...)['Close'] can hand back: a frame, here a function from
\* the column names present to the column's values, oldest first (prices in
\* hundredths). A ticker that failed upstream is a column whose values are
\* NaN, or no column at all; a failed request is an empty frame.
FrameOk1    == ("CNY=X" :> <<Num(720), Num(725)>>) @@ ("JPY=X" :> <<Num(14900), Num(15000)>>)
FrameOk2    == ("CNY=X" :> <<Num(725), Num(730)>>) @@ ("JPY=X" :> <<Num(15000), Num(14600)>>)
FrameJpyNaN == ("CNY=X" :> <<Num(720), Num(725)>>) @@ ("JPY=X" :> <<NaN, NaN>>)
FrameNoJpy  == ("CNY=X" :> <<Num(720), Num(725)>>)
FrameEmpty  == ("CNY=X" :> <<>>) @@ ("JPY=X" :> <<>>)

Frames == {FrameOk1, FrameOk2, FrameJpyNaN, FrameNoJpy, FrameEmpty}

\* One call of yf.download: it raises, or returns a frame.
Upstream ==
  {[raises |-> TRUE, data |-> FrameEmpty]} \cup {[raises |-> FALSE, data |-> f] : f \in Frames}

\* The result of a call that raised.
Raised == [ok |-> FALSE, usd_cny |-> NaN, usd_jpy |-> NaN, jpy_cny |-> NaN, data |-> <<>>]

\* Lines 20-25 on the frame: data[col].iloc[-1] raises for a missing column
\* (KeyError) and for an empty one (IndexError); the arithmetic never raises.
get_data_body(data) ==
  IF ~({"CNY=X", "JPY=X"} \subseteq DOMAIN data) THEN Raised
  ELSE IF Len(data["CNY=X"]) = 0 \/ Len(data["JPY=X"]) = 0 THEN Raised
  ELSE LET usd_cny == data["CNY=X"][Len(data["CNY=X"])]
           usd_jpy == data["JPY=X"][Len(data["JPY=X"])]
       IN  [ok |-> TRUE, usd_cny |-> usd_cny, usd_jpy |-> usd_jpy,
            jpy_cny |-> FMul(FDiv(usd_cny, usd_jpy), 100), data |-> data]

\* Lines 15-25: the body of get_data on one upstream outcome.
get_data_uncached(up) == IF up.raises THEN Raised ELSE get_data_body(up.data)


\* --------------------------------------------------------------- the feed

\* What feedparser.parse can hand back. It does not raise when the feed
\* cannot be fetched or parsed: it returns a result with bozo set and the
\* entries it could read, none if the feed was not reached.
FeedEmpty       == [bozo |-> FALSE, titles |-> <<>>]
FeedLong        == [bozo |-> FALSE,
                    titles |-> <<T_FedHawkishMove>> \o [i \in 1..(NewsCap - 1) |-> T_Oil]
                               \o <<K_BOJ_exit>>]
FeedUnreachable == [bozo |-> TRUE, titles |-> <<>>]
FeedMalformed   == [bozo |-> TRUE, titles |-> <<T_Kurodanomics>>]

FeedResults == {FeedEmpty, FeedLong, FeedUnreachable, FeedMalformed}

\* ----------------------------------------------------------------- state

Sessions == {"s1", "s2"}

\* The cache's time to live, in seconds (line 12).
TTL == 3600

\* The clock advances MaxTicks times, half a TTL at a time.
TickSeconds == TTL \div 2
MaxTicks == 3

\* The most upstream downloads one behaviour makes.
MaxDownloads == 2

VARIABLES
  now,        \* the clock, in seconds
  cache,      \* st.cache_data's store for get_data: <<>> or <<[at, value]>>
  downloads,  \* how many times yf.download has been called
  fetched,    \* the last download that get_data turned into a value: <<>> or <<[at, value]>>
  pc,         \* per session: where its script run stands
  clicked,    \* per session: whether this run was started by the button
  quote,      \* per session: <<>> or <<what get_data returned in this run>>
  raised,     \* per session: whether get_data raised in this run
  feed,       \* per session: <<>> or <<what feedparser.parse returned in this run>>
  news_text,  \* per session: the text get_news returned
  scores,     \* per session: <<>> or <<the scores computed in this run>>
  shown,      \* per session: <<>> or <<[labels, text]>>, what the run displayed
  t_stage,    \* the function harness: which function has been applied
  t_titles,   \* the function harness: the headline titles given
  t_text,     \* the function harness: get_news's text for t_titles
  t_scores,   \* the function harness: calculate_sentiment_score(t_text)
  t_labels,   \* the function harness: the label of each score
  t_score,    \* the function harness: the score given to the classifier
  t_label     \* the function harness: its label

appVars == <<now, cache, downloads, fetched, pc, clicked, quote, raised, feed,
             news_text, scores, shown>>
newsVars == <<feed, news_text, scores, shown>>
harnessVars == <<t_stage, t_titles, t_text, t_scores, t_labels, t_score, t_label>>
vars == <<appVars, harnessVars>>

ZeroScores == [USD |-> 0, JPY |-> 0, CNY |-> 0]
NoLabels == [c \in Currencies |-> Neutral]

AppInit ==
  /\ now = 0
  /\ cache = <<>>
  /\ downloads = 0
  /\ fetched = <<>>
  /\ pc = [s \in Sessions |-> "idle"]
  /\ clicked = [s \in Sessions |-> FALSE]
  /\ quote = [s \in Sessions |-> <<>>]
  /\ raised = [s \in Sessions |-> FALSE]
  /\ feed = [s \in Sessions |-> <<>>]
  /\ news_text = [s \in Sessions |-> <<>>]
  /\ scores = [s \in Sessions |-> <<>>]
  /\ shown = [s \in Sessions |-> <<>>]

HarnessIdle ==
  /\ t_stage = "off"
  /\ t_titles = <<>>
  /\ t_text = <<>>
  /\ t_scores = ZeroScores
  /\ t_labels = NoLabels
  /\ t_score = 0
  /\ t_label = Neutral

Init == AppInit /\ HarnessIdle

\* ------------------------------------------------------------ the script

\* A variant of the cache's freshness test that never expires an entry.
cache_fresh_forever(c, t) == c # <<>>

\* @st.cache_data(ttl=3600), line 12: an entry stored at c[1].at answers calls
\* made less than TTL seconds later.
cache_fresh(c, t) == c # <<>> /\ t - c[1].at < TTL

\* A variant of the handler that reports the error and goes on.
after_data_error_no_stop == "button"

\* Lines 86-88: st.error, then st.stop() ends the run.
after_data_error == "stopped"

\* A rerun of the script: the page is loaded, or a widget is used. The button
\* can be clicked only where the last run drew it (line 96).
RunScript(s, click) ==
  /\ pc[s] \in {"idle", "done", "stopped"}
  /\ click => pc[s] = "done"
  /\ pc' = [pc EXCEPT ![s] = "get_data"]
  /\ clicked' = [clicked EXCEPT ![s] = click]
  /\ raised' = [raised EXCEPT ![s] = FALSE]
  /\ UNCHANGED <<now, cache, downloads, fetched, quote, newsVars, harnessVars>>

\* Line 81, answered by the cache: no call of the body; lines 82-85 show it.
GetDataCached(s) ==
  /\ pc[s] = "get_data"
  /\ cache_fresh(cache, now)
  /\ quote' = [quote EXCEPT ![s] = <<cache[1].value>>]
  /\ pc' = [pc EXCEPT ![s] = "button"]
  /\ UNCHANGED <<now, cache, downloads, fetched, clicked, raised, newsVars, harnessVars>>

\* Line 81, not answered by the cache: the body runs (one download). A value
\* returned is stored and shown (lines 82-85); an exception is reported and the
\* run stops (lines 86-88), and nothing is stored. The decorator computes a
\* missing value under its lock, so lookup, download and store are one step.
GetDataDownload(s, up) ==
  /\ pc[s] = "get_data"
  /\ ~cache_fresh(cache, now)
  /\ downloads < MaxDownloads
  /\ downloads' = downloads + 1
  /\ LET r == get_data_uncached(up)
     IN  IF r.ok
         THEN /\ cache' = <<[at |-> now, value |-> r]>>
              /\ fetched' = <<[at |-> now, value |-> r]>>
              /\ quote' = [quote EXCEPT ![s] = <<r>>]
              /\ pc' = [pc EXCEPT ![s] = "button"]
              /\ UNCHANGED raised
         ELSE /\ raised' = [raised EXCEPT ![s] = TRUE]
              /\ pc' = [pc EXCEPT ![s] = after_data_error]
              /\ UNCHANGED <<cache, fetched, quote>>
  /\ UNCHANGED <<now, clicked, newsVars, harnessVars>>

\* Line 96: st.button(...) is true in the run the click started.
Button(s) ==
  /\ pc[s] = "button"
  /\ pc' = [pc EXCEPT ![s] = IF clicked[s] THEN "get_news" ELSE "chart"]
  /\ clicked' = [clicked EXCEPT ![s] = FALSE]
  /\ UNCHANGED <<now, cache, downloads, fetched, quote, raised, newsVars, harnessVars>>

\* Line 98, get_news (lines 28-35): feedparser.parse hands back f; the loop
\* over its entries and the join build the text, and get_news returns it.
GetNews(s, f) ==
  /\ pc[s] = "get_news"
  /\ feed' = [feed EXCEPT ![s] = <<f>>]
  /\ news_text' = [news_text EXCEPT ![s] = news_text_of(f.titles)]
  /\ pc' = [pc EXCEPT ![s] = "score"]
  /\ UNCHANGED <<now, cache, downloads, fetched, clicked, quote, raised,
                 scores, shown, harnessVars>>

\* Line 99.
Score(s) ==
  /\ pc[s] = "score"
  /\ scores' = [scores EXCEPT ![s] = <<calculate_sentiment_score(news_text[s])>>]
  /\ pc' = [pc EXCEPT ![s] = "show"]
  /\ UNCHANGED <<now, cache, downloads, fetched, clicked, quote, raised, feed,
                 news_text, shown, harnessVars>>

\* Lines 101-124: the success notice, the three metrics with their labels, and
\* the expander with the news text.
Show(s) ==
  /\ pc[s] = "show"
  /\ shown' = [shown EXCEPT ![s] =
                 <<[labels |-> [c \in Currencies |-> get_sentiment_color_text(scores[s][1][c])],
                    text |-> news_text[s]]>>]
  /\ pc' = [pc EXCEPT ![s] = "chart"]
  /\ UNCHANGED <<now, cache, downloads, fetched, clicked, quote, raised, feed,
                 news_text, scores, harnessVars>>

\* Lines 127-129: the chart of df; the run ends, and with it the run's values.
Chart(s) ==
  /\ pc[s] = "chart"
  /\ pc' = [pc EXCEPT ![s] = "done"]
  /\ quote' = [quote EXCEPT ![s] = <<>>]
  /\ feed' = [feed EXCEPT ![s] = <<>>]
  /\ news_text' = [news_text EXCEPT ![s] = <<>>]
  /\ scores' = [scores EXCEPT ![s] = <<>>]
  /\ shown' = [shown EXCEPT ![s] = <<>>]
  /\ UNCHANGED <<now, cache, downloads, fetched, clicked, raised, harnessVars>>

\* Time passes.
Tick ==
  /\ now + TickSeconds <= MaxTicks * TickSeconds
  /\ now' = now + TickSeconds
  /\ UNCHANGED <<cache, downloads, fetched, pc, clicked, quote, raised, newsVars, harnessVars>>

Next ==
  \/ \E s \in Sessions, click \in BOOLEAN : RunScript(s, click)
  \/ \E s \in Sessions : GetDataCached(s)
  \/ \E s \in Sessions, up \in Upstream : GetDataDownload(s, up)
  \/ \E s \in Sessions : Button(s)
  \/ \E s \in Sessions, f \in FeedResults : GetNews(s, f)
  \/ \E s \in Sessions : Score(s)
  \/ \E s \in Sessions : Show(s)
  \/ \E s \in Sessions : Chart(s)
  \/ Tick

Spec == Init /\ [][Next]_vars


\* ------------------------------------------- the functions, applied alone

\* The inputs: a batch of headline titles, or a score for the classifier.
HarnessInit ==
  \/ /\ t_stage = "titles"
     /\ t_titles \in Batches
     /\ t_text = <<>>
     /\ t_scores = ZeroScores
     /\ t_labels = NoLabels
     /\ t_score = 0
     /\ t_label = Neutral
  \/ /\ t_stage = "probe"
     /\ t_titles = <<>>
     /\ t_text = <<>>
     /\ t_scores = ZeroScores
     /\ t_labels = NoLabels
     /\ t_score \in ScoreRange
     /\ t_label = Neutral

\* get_news on a feed whose entries have the titles t_titles (lines 31-35).
ApplyGetNews ==
  /\ t_stage = "titles"
  /\ t_text' = news_text_of(t_titles)
  /\ t_stage' = "text"
  /\ UNCHANGED <<appVars, t_titles, t_scores, t_labels, t_score, t_label>>

\* calculate_sentiment_score on that text (line 99).
ApplyScore ==
  /\ t_stage = "text"
  /\ t_scores' = calculate_sentiment_score(t_text)
  /\ t_stage' = "scored"
  /\ UNCHANGED <<appVars, t_titles, t_text, t_labels, t_score, t_label>>

\* get_sentiment_color_text on each score (lines 118-120).
ApplyLabels ==
  /\ t_stage = "scored"
  /\ t_labels' = [c \in Currencies |-> get_sentiment_color_text(t_scores[c])]
  /\ t_stage' = "labelled"
  /\ UNCHANGED <<appVars, t_titles, t_text, t_scores, t_score, t_label>>

\* get_sentiment_color_text on the probe score (lines 106-116).
ApplyClassify ==
  /\ t_stage = "probe"
  /\ t_label' = get_sentiment_color_text(t_score)
  /\ t_stage' = "classified"
  /\ UNCHANGED <<appVars, t_titles, t_text, t_scores, t_labels, t_score>>

NextScore == ApplyGetNews \/ ApplyScore \/ ApplyLabels \/ ApplyClassify

InitScore == AppInit /\ HarnessInit

SpecScore == InitScore /\ [][NextScore]_vars


\* ================================================================ claims

\* The indices of the weights entries whose phrase occurs in text,
\* case-insensitively, as a substring.
PhrasesIn(text) ==
  {i \in 1..Len(weights) : IsIn(lower(weights[i].keyword), lower(text))}

\* The scores are in: calculate_sentiment_score has returned.
Scored == t_stage \in {"scored", "labelled"}

\* C1: a news text in which 'BOJ exit' and 'China stimulus' are the only
\* lexicon phrases that occur scores USD=0, JPY=7, CNY=4, labelled neutral
\* (USD), strongly bullish (JPY) and mildly bullish (CNY).
C1_BojExitChinaStimulus ==
  (/\ t_stage = "labelled"
   /\ {weights[i].keyword : i \in PhrasesIn(t_text)} = {K_BOJ_exit, K_China_stimulus})
  => /\ t_scores = [USD |-> 0, JPY |-> 7, CNY |-> 4]
     /\ t_labels = [USD |-> Neutral, JPY |-> StronglyBullish, CNY |-> MildlyBullish]

\* Whether the phrase of entry i adds its weight to currency c.
Affects(i, c) == AddWeight(ZeroScores, weights[i].keyword, 1)[c] = 1

\* The sum of the weights of the entries in S that affect c, each taken once.
RECURSIVE OnceSum(_, _)
OnceSum(S, c) ==
  IF S = {} THEN 0
  ELSE LET i == CHOOSE x \in S : TRUE
       IN  (IF Affects(i, c) THEN weights[i].weight ELSE 0) + OnceSum(S \ {i}, c)

\* The batch with a copy of its j-th headline put in after position p.
Duplicated(titles, j, p) ==
  SubSeq(titles, 1, p) \o <<titles[j]>> \o SubSeq(titles, p + 1, Len(titles))

\* C2: scoring is presence-only. Each phrase that occurs adds its weight to each
\* currency it affects exactly once, however often it occurs, and putting a copy
\* of any headline anywhere in the batch leaves the scores as they are.
C2_PresenceOnly ==
  t_stage = "scored" =>
    /\ \A c \in Currencies : t_scores[c] = OnceSum(PhrasesIn(t_text), c)
    /\ \A j \in 1..Len(t_titles) : \A p \in 0..Len(t_titles) :
         calculate_sentiment_score(news_text_of(Duplicated(t_titles, j, p))) = t_scores

\* C2's case: 'Fed hawkish' occurs more than once, in a headline given twice,
\* and USD is 6.
C2_Witness ==
  /\ Scored
  /\ Len(t_titles) = 2
  /\ t_titles[1] = t_titles[2]
  /\ Occurrences(lower(K_Fed_hawkish), lower(t_text)) >= 2
  /\ t_scores.USD = 6

\* C3: the label of a score follows the fixed thresholds: above 5 strongly
\* bullish, above 1 up to 5 mildly bullish, -1 to 1 neutral, -5 up to below -1
\* mildly bearish, below -5 strongly bearish; every score gets its one label.
C3_Thresholds ==
  t_stage = "classified" =>
    /\ t_score > 5 => t_label = StronglyBullish
    /\ (1 < t_score /\ t_score <= 5) => t_label = MildlyBullish
    /\ (-1 <= t_score /\ t_score <= 1) => t_label = Neutral
    /\ (-5 <= t_score /\ t_score < -1) => t_label = MildlyBearish
    /\ t_score < -5 => t_label = StronglyBearish
    /\ t_label \in {StronglyBullish, MildlyBullish, Neutral, MildlyBearish, StronglyBearish}

\* C3's case: the boundary score 5 has been classified, as mildly bullish.
C3_Witness == t_stage = "classified" /\ t_score = 5 /\ t_label = MildlyBullish

\* C4: every entry of the weights table affects a currency: a text in which
\* only that phrase occurs moves at least one score by the phrase's weight.
C4_EveryPhraseScores ==
  \A i \in 1..Len(weights) :
    (Scored /\ PhrasesIn(t_text) = {i}) =>
      \E c \in Currencies : t_scores[c] = weights[i].weight

\* C8: the text get_news builds adds no match of its own: a phrase occurs in
\* the joined text exactly if it occurs inside one of the headline titles.
C8_NoFalseMatch ==
  t_stage = "text" =>
    \A i \in 1..Len(weights) :
      IsIn(lower(weights[i].keyword), lower(t_text))
        <=> \E j \in 1..Len(t_titles) : IsIn(lower(weights[i].keyword), lower(t_titles[j]))

\* C8's case: a phrase cut in two at a headline boundary, joined, not matched.
C8_Witness ==
  /\ t_stage = "text"
  /\ t_titles = <<T_Fed, T_hawkish>>
  /\ ~IsIn(lower(K_Fed_hawkish), lower(t_text))

\* A get_data call of session s returns or raises in this step.
GetDataEnds(s) == pc[s] = "get_data" /\ pc'[s] # "get_data"

\* C5: while less than TTL seconds have passed since the last download that
\* gave get_data a value, a get_data call makes no download and returns that
\* value; otherwise (no value yet, or the TTL has elapsed) the call downloads.
C5_CacheWithinTTL ==
  [][\A s \in Sessions :
       GetDataEnds(s) =>
         IF fetched # <<>> /\ now - fetched[1].at < TTL
         THEN downloads' = downloads /\ quote'[s] = <<fetched[1].value>>
         ELSE downloads' = downloads + 1]_vars

\* C5's case: one download so far, time has passed since it, and both sessions
\* hold its value: at least one of them had it from the cache.
C5_Witness ==
  /\ downloads = 1
  /\ fetched # <<>>
  /\ now > fetched[1].at
  /\ \A s \in Sessions : pc[s] = "button" /\ quote[s] = <<fetched[1].value>>

\* C6: a feed that was reached and has no entries gives the empty batch and
\* all-zero scores; a feed that could not be reached or parsed is reported as an
\* error and is not scored or shown as if it were news.
C6_FeedFailureSurfaced ==
  \A s \in Sessions :
    feed[s] # <<>> =>
      /\ (~feed[s][1].bozo /\ feed[s][1].titles = <<>> /\ scores[s] # <<>>)
           => (news_text[s] = <<>> /\ scores[s] = <<ZeroScores>>)
      /\ feed[s][1].bozo => (scores[s] = <<>> /\ shown[s] = <<>>)

\* C7: a run never holds or shows a cross-rate computed from a missing latest
\* JPY=X value: get_data fails instead.
C7_NoCrossRateFromMissing ==
  \A s \in Sessions :
    quote[s] # <<>> =>
      /\ quote[s][1].usd_jpy.kind # "nan"
      /\ quote[s][1].jpy_cny.kind # "nan"

\* C9: in a run, the scores are computed only once get_news has returned, from
\* the text of the complete batch (the first 10 feed entries at most, in feed
\* order, each after "- ", joined by newlines), and the text shown is that text.
C9_ScoredCompleteBatch ==
  \A s \in Sessions :
    /\ pc[s] = "get_news" => (feed[s] = <<>> /\ scores[s] = <<>>)
    /\ scores[s] # <<>> =>
         /\ feed[s] # <<>>
         /\ LET titles == feed[s][1].titles
                n == IF Len(titles) < 10 THEN Len(titles) ELSE 10
            IN  news_text[s] = join(<<NL>>, [i \in 1..n |-> <<"-", " ">> \o titles[i]])
    /\ pc[s] = "show" => scores[s] = <<calculate_sentiment_score(news_text[s])>>
    /\ shown[s] # <<>> => (scores[s] # <<>> /\ shown[s][1].text = news_text[s])

\* C9's case: a feed of more than 10 entries has been scored and shown; the
\* phrase in the 11th entry did not count.
C9_Witness ==
  \E s \in Sessions :
    /\ shown[s] # <<>>
    /\ Len(feed[s][1].titles) > 10
    /\ scores[s] = <<[USD |-> 6, JPY |-> 0, CNY |-> 0]>>

\* C10: a run in which get_data raised has stopped, with no news fetched,
\* nothing scored and nothing shown; a run is at the button, in the news path
\* or at the chart only if its get_data call returned a value.
C10_NewsGatedOnData ==
  \A s \in Sessions :
    /\ raised[s] =>
         (pc[s] = "stopped" /\ feed[s] = <<>> /\ scores[s] = <<>> /\ shown[s] = <<>>)
    /\ pc[s] \in {"button", "get_news", "score", "show", "chart"} =>
         (~raised[s] /\ quote[s] # <<>> /\ quote[s][1].ok)

\* C10's case: one session's run stopped on the error while the other's,
\* whose get_data returned, is in the news path.
C10_Witness ==
  \E s, t \in Sessions :
    /\ raised[s] /\ pc[s] = "stopped"
    /\ pc[t] = "score"

====
